---- MODULE Spec2Model ----
(***************************************************************************)
(* Model of the article search service of Url-Scrapper: the CSV corpus,    *)
(* api.py's load_data / search_articles / search handler, and main.py's    *)
(* REPL search_articles.                                                   *)
(*                                                                         *)
(* Strings are modelled by their word counts (a function Words -> Nat):    *)
(* the analyzer of TfidfVectorizer only looks at the words of a string.    *)
(* Similarities are fixed-point numbers in units of 1/SimScale.            *)
(***************************************************************************)
EXTENDS Integers, Sequences, FiniteSets, TLC

\* ------------------------------------------------------------------ bounds
\* Largest number of data rows of the CSV file.
MaxRows == 2
\* The count of answered searches is kept up to this number.
MaxServed == 2

\* ------------------------------------------------------- program constants
\* api.py: TOP_K = 10
TOP_K == 10
\* api.py search(): limit = min(limit, 50)
HardCap == 50
\* api.py search_articles(): round(float(row['similarity']), 4)
RoundDigitsScale == 10000
\* Fixed-point resolution of a similarity (one decimal finer than the
\* rounding of the reported score).
SimScale == 10 * RoundDigitsScale

\* ------------------------------------------------------------------ strings
Words == {"cats", "dogs", "fish", "the", "xx", "nan", " "}

\* sklearn's stop_words='english' list, restricted to Words.
StopWords == {"the"}

\* token_pattern r"(?u)\b\w\w+\b": whitespace is no token.
IsToken(w) == w # " "

EmptyStr == [w \in Words |-> 0]
Word(w) == [EmptyStr EXCEPT ![w] = 1]
Rep(w, n) == [EmptyStr EXCEPT ![w] = n]
\* a + ' ' + b
Concat(a, b) == [w \in Words |-> IF w = " " THEN a[w] + b[w] + 1 ELSE a[w] + b[w]]

\* Python truthiness of a str: `not query` is true of '' alone.
IsEmptyStr(s) == \A w \in Words : s[w] = 0

\* A cell of the CSV file / DataFrame: a value, or NaN (missing).
NaNStr == [na |-> TRUE, s |-> EmptyStr]
Str(s) == [na |-> FALSE, s |-> s]
NaNNum == [na |-> TRUE, n |-> 0]
Num(n) == [na |-> FALSE, n |-> n]
NaNName == [na |-> TRUE, a |-> ""]
Name(a) == [na |-> FALSE, a |-> a]

\* Variant: the missing value is left to str(), which writes it 'nan'.
fillna_skipped(cell) == IF cell.na THEN Word("nan") ELSE cell.s

\* Series.fillna('')
fillna(cell) == IF cell.na THEN EmptyStr ELSE cell.s

\* ---------------------------------------------------------------- the corpus
\* Title / subtitle / text / keywords of the articles a file may hold.
CatsArticle ==
    [title |-> Str(Word("cats")), subtitle |-> NaNStr, text |-> NaNStr,
     keywords |-> Str(Word("cats"))]
DogsArticle ==
    [title |-> Str(Word("dogs")), subtitle |-> Str(Word("the")),
     text |-> Str(Rep("xx", 200)), keywords |-> NaNStr]
HugeDogsArticle ==
    [title |-> Str(Word("dogs")), subtitle |-> NaNStr,
     text |-> Str(Rep("xx", 30000)), keywords |-> NaNStr]
HugerDogsArticle ==
    [title |-> Str(Word("dogs")), subtitle |-> NaNStr,
     text |-> Str(Rep("xx", 40000)), keywords |-> NaNStr]
StopWordArticle ==
    [title |-> NaNStr, subtitle |-> NaNStr, text |-> Str(Word("the")), keywords |-> NaNStr]

Row(url, c, claps, author) ==
    [url |-> url, title |-> c.title, subtitle |-> c.subtitle, text |-> c.text,
     keywords |-> c.keywords, claps |-> claps, author_name |-> author]

\* The data rows a CSV file may hold.
RowPool ==
    { Row("u2", DogsArticle, Num(10), NaNName),
      Row("u3", DogsArticle, Num(50), Name("bob")),
      Row("u4", HugerDogsArticle, Num(50), NaNName),
      Row("u5", StopWordArticle, NaNNum, Name("bob")),
      Row("u6", HugeDogsArticle, Num(10), Name("ann")) }

SeqsUpTo(S, n) == UNION { [1..k -> S] : k \in 0..n }

CsvColumns == {"url", "title", "subtitle", "text", "keywords", "claps", "author_name"}

\* The header rows a CSV file may have: every column the search reads, the
\* required url and title alone, or all but claps and author_name.
Headers == { CsvColumns, {"url", "title"}, CsvColumns \ {"claps", "author_name"} }

\* The cells of a data row under a header: a column the header lacks has no
\* cell (kept here as a missing value that no code path may read).
Project(r, h) ==
    [url |-> r.url, title |-> r.title,
     subtitle |-> IF "subtitle" \in h THEN r.subtitle ELSE NaNStr,
     text |-> IF "text" \in h THEN r.text ELSE NaNStr,
     keywords |-> IF "keywords" \in h THEN r.keywords ELSE NaNStr,
     claps |-> IF "claps" \in h THEN r.claps ELSE NaNNum,
     author_name |-> IF "author_name" \in h THEN r.author_name ELSE NaNName]

NoFile == [exists |-> FALSE, columns |-> {}, rows |-> <<>>]

\* scrapping_results.csv: absent, or a header row and some data rows.
\* The rows of the files whose header lacks columns.
HeaderPool ==
    { Row("u3", DogsArticle, Num(50), Name("bob")),
      Row("u5", StopWordArticle, NaNNum, Name("bob")) }

Files == { NoFile } \cup
         { [exists |-> TRUE, columns |-> CsvColumns, rows |-> r] :
             r \in SeqsUpTo(RowPool, MaxRows) } \cup
         UNION { { [exists |-> TRUE, columns |-> h, rows |-> r] :
                     r \in SeqsUpTo({Project(x, h) : x \in HeaderPool}, MaxRows) } :
                 h \in Headers \ {CsvColumns} }

\* ------------------------------------------------------- pandas DataFrame
\* A DataFrame: its column labels and its rows.  A row carries its index
\* label idx (the position of the row in the file, from 0) and every column
\* the program ever sets; `columns` says which of them exist.
NoneFrame == [kind |-> "None", columns |-> {}, rows |-> <<>>]

\* pd.DataFrame()
EmptyFrame == [kind |-> "frame", columns |-> {}, rows |-> <<>>]

\* Variant: read_csv(...).drop_duplicates()
read_csv_drop_duplicates(f) ==
    LET first(i) == \A j \in 1..(i - 1) : f.rows[j] # f.rows[i]
        kept == SelectSeq([i \in 1..Len(f.rows) |-> i], first)
    IN [kind |-> "frame", columns |-> f.columns,
        rows |-> [k \in 1..Len(kept) |->
                    [idx |-> k - 1, url |-> f.rows[kept[k]].url,
                     title |-> f.rows[kept[k]].title,
                     subtitle |-> f.rows[kept[k]].subtitle, text |-> f.rows[kept[k]].text,
                     keywords |-> f.rows[kept[k]].keywords, claps |-> f.rows[kept[k]].claps,
                     author_name |-> f.rows[kept[k]].author_name,
                     search_text |-> EmptyStr, similarity |-> 0]]]

\* pd.read_csv(CSV_FILE) of a file with a header row.
read_csv(f) ==
    [kind |-> "frame", columns |-> f.columns,
     rows |-> [i \in 1..Len(f.rows) |->
                 [idx |-> i - 1, url |-> f.rows[i].url, title |-> f.rows[i].title,
                  subtitle |-> f.rows[i].subtitle, text |-> f.rows[i].text,
                  keywords |-> f.rows[i].keywords, claps |-> f.rows[i].claps,
                  author_name |-> f.rows[i].author_name,
                  search_text |-> EmptyStr, similarity |-> 0]]]

\* DataFrame.empty: no rows or no columns.
IsEmptyFrame(d) == d.rows = <<>> \/ d.columns = {}

\* The columns df['search_text'] is built from; df[c] of a column the
\* frame lacks raises KeyError.
TextColumns == {"title", "subtitle", "text", "keywords"}

\* df['search_text'] = title + ' ' + subtitle + ' ' + text + ' ' + keywords
SearchText(r) ==
    Concat(Concat(Concat(fillna(r.title), fillna(r.subtitle)), fillna(r.text)),
           fillna(r.keywords))

WithSearchText(d) ==
    [d EXCEPT !.columns = @ \cup {"search_text"},
              !.rows = [i \in 1..Len(d.rows) |->
                          [d.rows[i] EXCEPT !.search_text = SearchText(d.rows[i])]]]

\* --------------------------------------------------------- TfidfVectorizer
\* TfidfVectorizer(max_features=5000, ...)
max_features == 5000

NoneVectorizer == [kind |-> "None", vocabulary |-> {}]
UnfittedVectorizer == [kind |-> "unfitted", vocabulary |-> {}]

NoneMatrix == [kind |-> "None", rows |-> <<>>]

\* Variant: stop_words=None
AnalyzeWithStopWords(s) == [w \in Words |-> IF IsToken(w) THEN s[w] ELSE 0]

\* The analyzer: tokens of the string that are no stop words.
Analyze(s) == [w \in Words |-> IF IsToken(w) /\ w \notin StopWords THEN s[w] ELSE 0]

RECURSIVE SumOver(_, _)
SumOver(f, S) ==
    IF S = {} THEN 0
    ELSE LET w == CHOOSE x \in S : TRUE IN f[w] + SumOver(f, S \ {w})

\* Term frequency of w over the whole corpus.
CorpusCount(texts, w) ==
    SumOver([i \in 1..Len(texts) |-> Analyze(texts[i])[w]], 1..Len(texts))

\* The vocabulary fit() learns: the terms of the corpus, the max_features
\* most frequent ones when there are more.
Vocabulary(texts) ==
    LET terms == {w \in Words : \E i \in 1..Len(texts) : Analyze(texts[i])[w] > 0}
    IN IF Cardinality(terms) <= max_features THEN terms
       ELSE CHOOSE V \in SUBSET terms :
              /\ Cardinality(V) = max_features
              /\ \A v \in V, o \in terms \ V :
                    CorpusCount(texts, v) >= CorpusCount(texts, o)

\* vectorizer.transform([s]): the counts of the vocabulary terms of s.  (The
\* idf weights are positive, so the zero pattern of the vector is that of
\* the counts.)
Transform(vec, s) == [w \in Words |-> IF w \in vec.vocabulary THEN Analyze(s)[w] ELSE 0]

\* Variant: df['text'].fillna('').tolist()
SearchTextsOfText(d) == [i \in 1..Len(d.rows) |-> fillna(d.rows[i].text)]

\* df['search_text'].tolist()
SearchTexts(d) == [i \in 1..Len(d.rows) |-> d.rows[i].search_text]

\* fit_transform raises ValueError("empty vocabulary") when no document has
\* a term.
FitRaises(texts) == Vocabulary(texts) = {}

FittedVectorizer(texts) == [kind |-> "fitted", vocabulary |-> Vocabulary(texts)]

\* Variant: the vectors come out in the reverse order of the documents.
FitTransformReversed(texts) ==
    [kind |-> "matrix",
     rows |-> [i \in 1..Len(texts) |->
                 Transform(FittedVectorizer(texts), texts[Len(texts) + 1 - i])]]

FitTransform(texts) ==
    [kind |-> "matrix",
     rows |-> [i \in 1..Len(texts) |-> Transform(FittedVectorizer(texts), texts[i])]]

\* ------------------------------------------------------- cosine_similarity
Min(a, b) == IF a <= b THEN a ELSE b
Max(a, b) == IF a >= b THEN a ELSE b

RECURSIVE ISqrtIn(_, _, _)
\* The largest r in lo..hi with r * r <= n.
ISqrtIn(n, lo, hi) ==
    IF lo >= hi THEN lo
    ELSE LET mid == (lo + hi + 1) \div 2
         IN IF mid * mid <= n THEN ISqrtIn(n, mid, hi) ELSE ISqrtIn(n, lo, mid - 1)

ISqrt(n) == ISqrtIn(n, 0, 46340)

Dot(a, b) == SumOver([w \in Words |-> a[w] * b[w]], Words)

\* 100 * sqrt(x)
Norm100(x) == IF x <= 200000 THEN ISqrt(x * 10000) ELSE 100 * ISqrt(x)

\* Cosine of two count vectors, in units of 1/SimScale: 0 exactly when the
\* vectors share no term.
Cosine(q, d) ==
    IF Dot(q, d) = 0 THEN 0
    ELSE Max(1, Min(SimScale,
                    (Dot(q, d) * SimScale * 100) \div Norm100(Dot(q, q) * Dot(d, d))))

\* cosine_similarity(query_vector, tfidf_matrix).flatten()
cosine_similarity(qv, m) == [i \in 1..Len(m.rows) |-> Cosine(qv, m.rows[i])]

\* ------------------------------------------------- api.py search_articles
\* Variant: the similarity column is only set by the first query.
AssignSimilarityOnce(d, sims) ==
    IF "similarity" \in d.columns THEN d
    ELSE [d EXCEPT !.columns = @ \cup {"similarity"},
                   !.rows = [i \in 1..Len(d.rows) |->
                               [d.rows[i] EXCEPT !.similarity = sims[i]]]]

\* df['similarity'] = similarities
AssignSimilarity(d, sims) ==
    [d EXCEPT !.columns = @ \cup {"similarity"},
              !.rows = [i \in 1..Len(d.rows) |->
                          [d.rows[i] EXCEPT !.similarity = sims[i]]]]

\* Variant: threshold >= 0
IsSimilarOrZero(r) == r.similarity >= 0

\* df['similarity'] > 0
IsSimilar(r) == r.similarity > 0

\* df[df['similarity'] > 0].copy()
FilterSimilar(d) == SelectSeq(d.rows, IsSimilar)

\* Variant: no fallback to the whole corpus
OrNoArticles(similar, d) == similar

\* if similar_articles.empty: similar_articles = df.copy()
OrAllArticles(similar, d) == IF similar = <<>> THEN d.rows ELSE similar

\* Descending order of a claps column, NaN last.
ClapsBefore(x, y) == ~x.na /\ (y.na \/ x.n > y.n)

\* Variant: by=['similarity'] alone
SortsBeforeBySimilarity(a, b) == a.similarity > b.similarity

\* by=['similarity', 'claps'], ascending=[False, False]
SortsBefore(a, b) ==
    \/ a.similarity > b.similarity
    \/ a.similarity = b.similarity /\ ClapsBefore(a.claps, b.claps)

RECURSIVE InsertRow(_, _)
\* r goes before the first row it sorts strictly before.
InsertRow(r, sorted) ==
    IF sorted = <<>> THEN <<r>>
    ELSE IF SortsBefore(r, Head(sorted)) THEN <<r>> \o sorted
         ELSE <<Head(sorted)>> \o InsertRow(r, Tail(sorted))

RECURSIVE SortFrom(_, _)
SortFrom(rows, sorted) ==
    IF rows = <<>> THEN sorted
    ELSE SortFrom(Tail(rows), InsertRow(Head(rows), sorted))

\* Variant: the frame is left in row order
sort_values_skipped(rows) == rows

\* DataFrame.sort_values: a stable sort, rows that tie on both keys keep
\* their order.
sort_values(rows) == SortFrom(rows, <<>>)

\* DataFrame.head(n): the first n rows; for negative n, all but the last -n.
head(rows, n) ==
    IF n >= 0 THEN SubSeq(rows, 1, Min(n, Len(rows)))
    ELSE SubSeq(rows, 1, Max(0, Len(rows) + n))

\* Variant: rounded up
Round4Up(x) == (x * RoundDigitsScale + SimScale - 1) \div SimScale

\* round(float(x), 4), in units of 1/RoundDigitsScale
Round4(x) == (x * RoundDigitsScale + SimScale \div 2) \div SimScale

\* The dictionary appended for one row of top_articles.
ResultOf(r) ==
    [url |-> r.url,
     title |-> r.title,
     claps |-> IF r.claps.na THEN 0 ELSE r.claps.n,
     author |-> IF r.author_name.na THEN "Unknown" ELSE r.author_name.a,
     similarity_score |-> Round4(r.similarity)]

FormatResults(rows) == [i \in 1..Len(rows) |-> ResultOf(rows[i])]

IndexLabels(rows) == [i \in 1..Len(rows) |-> rows[i].idx]

\* The columns a result dictionary is read from.
ResultColumns == {"url", "title", "claps", "author_name", "similarity"}

\* Variant: if df.empty: return []
NoCorpusUnlessNone(d) == d.kind # "None" /\ IsEmptyFrame(d)

\* if df is None or df.empty: return []
NoCorpus(d) == d.kind = "None" \/ IsEmptyFrame(d)

\* search_articles(query, top_k) on the globals d, vec, m: the list it
\* returns (or that it raises), the global df it leaves, and the index
\* labels of top_articles.
search_articles(d, vec, m, query, top_k) ==
    IF NoCorpus(d)
    THEN [raised |-> FALSE, results |-> <<>>, df |-> d, top |-> <<>>]
    ELSE IF d.kind = "None" \/ vec.kind # "fitted" \/ m.kind = "None"
            \/ Len(m.rows) # Len(d.rows)
    THEN [raised |-> TRUE, results |-> <<>>, df |-> d, top |-> <<>>]
    ELSE LET similarities == cosine_similarity(Transform(vec, query), m)
             d1 == AssignSimilarity(d, similarities)
             similar_articles == OrAllArticles(FilterSimilar(d1), d1)
         IN IF "claps" \notin d1.columns
            THEN \* sort_values(by=[..., 'claps']): KeyError
                 [raised |-> TRUE, results |-> <<>>, df |-> d1, top |-> <<>>]
            ELSE LET top_articles == head(sort_values(similar_articles), top_k)
                 IN IF top_articles # <<>> /\ ~(ResultColumns \subseteq d1.columns)
                    THEN \* row['author_name']: KeyError
                         [raised |-> TRUE, results |-> <<>>, df |-> d1, top |-> <<>>]
                    ELSE [raised |-> FALSE, results |-> FormatResults(top_articles),
                          df |-> d1, top |-> IndexLabels(top_articles)]

\* ------------------------------------------------ main.py search_articles
\* search_articles(csv_file, query, top_k=10) of the REPL: None, a DataFrame
\* of results, or the ValueError of fit_transform.
main_search_articles(f, query, top_k) ==
    IF ~f.exists THEN [kind |-> "None", rows |-> <<>>]
    ELSE LET d == read_csv(f) IN
         IF IsEmptyFrame(d) THEN [kind |-> "None", rows |-> <<>>]
         ELSE IF ~(TextColumns \subseteq d.columns) \/ "claps" \notin d.columns
         THEN [kind |-> "raise", rows |-> <<>>]
         ELSE LET d0 == WithSearchText(d)
                  texts == SearchTexts(d0)
              IN IF FitRaises(texts) THEN [kind |-> "raise", rows |-> <<>>]
                 ELSE LET similarities ==
                              cosine_similarity(Transform(FittedVectorizer(texts), query),
                                                FitTransform(texts))
                          d1 == AssignSimilarity(d0, similarities)
                      IN [kind |-> "frame",
                          rows |-> head(sort_values(FilterSimilar(d1)), top_k)]

\* ------------------------------------------------------------------- inputs
\* The query strings of the requests.
Queries == {EmptyStr, Word(" "), Word("dogs"), Word("fish"), Word("the")}

\* The query parameter of a request: absent, or given with a value.
QueryArgs == { [given |-> FALSE, s |-> EmptyStr] } \cup
             { [given |-> TRUE, s |-> q] : q \in Queries }

\* request.args.get('query', '')
QueryParam(arg) == IF arg.given THEN arg.s ELSE EmptyStr

\* The limit parameter of a request: absent, not an integer, or an integer.
LimitArgs == { [kind |-> "absent", n |-> 0], [kind |-> "bad", n |-> 0] } \cup
             { [kind |-> "int", n |-> k] : k \in {-1, 0, 1, 60} }

\* The limit the request asks for: the default when it gives no integer.
Requested(arg) == IF arg.kind = "int" THEN arg.n ELSE TOP_K

\* try: limit = min(int(args.get('limit', TOP_K)), 50) except ValueError: TOP_K
ParseLimit(arg) ==
    CASE arg.kind = "absent" -> Min(TOP_K, HardCap)
      [] arg.kind = "int" -> Min(arg.n, HardCap)
      [] OTHER -> TOP_K

\* -------------------------------------------------------------------- state
VARIABLES
    file,           \* scrapping_results.csv
    phase,          \* "main": api.py run as a script, before load_data;
                    \* "wsgi": api.py imported by a server, load_data never runs;
                    \* "serving": load_data returned; "crashed": it raised;
                    \* "repl": main.py in its search loop;
                    \* "deploy_import": api_deploy.py being imported;
                    \* "deploy": api_deploy.py imported, load_data has run
    df,             \* api.py globals
    vectorizer,
    tfidf_matrix,
    response,       \* the last response, with the query and the limit of its
                    \* request and, for a search, the index labels of the
                    \* rows of top_articles
    served,         \* history: how many searches were answered (up to MaxServed)
    repl,           \* result of the last search of main.py's REPL
    \* Request threads of the Flask server (app.run serves each request in
    \* a thread of its own), for each thread:
    tpc,            \* where it is in search / search_articles
    tquery,         \* its query
    ttopk,          \* its top_k
    tsimilar,       \* its local similar_articles
    tresult         \* the list its search_articles returns

tvars == <<tpc, tquery, ttopk, tsimilar, tresult>>

\* utils.py, one call of a function:
VARIABLES
    claps_str,      \* the argument of parse_claps
    parsed,         \* what parse_claps returned, or that it raised
    dirty,          \* the argument of clean_text
    cleaned,        \* what clean_text returned
    cleaned_again   \* what clean_text returned for that result

utilvars == <<claps_str, parsed, dirty, cleaned, cleaned_again>>

\* scraper.py scrape_all(urls, output_file, resume) and main.py
\* scrape_urls(urls, output_file), one call after the other:
VARIABLES
    output_file,    \* the CSV file named by output_file
    program,        \* "scraper" (scrape_all) or "main" (scrape_urls) is running
    urls,           \* the argument urls
    resume,         \* the argument resume
    spc,            \* where the call is
    scraped_data,
    scraped_urls,   \* scraped_urls of scrape_all, existing_urls of scrape_urls
    urls_to_scrape,
    pos,            \* position of the loop in urls_to_scrape (from 1)
    scraped_count,  \* scraped_count of scrape_urls
    driver,         \* "none", "open" or "quit"
    outcome,        \* "running", "returned", "interrupted", "ValueError" (raised by
                    \* DictWriter) or "error" (raised by create_driver or by the
                    \* read of the file)
    \* history:
    runs,           \* the calls started
    quits,          \* the calls of driver.quit() in this call
    file_before,    \* output_file when the call started
    fetched,        \* the urls given to scrape_article, in order
    articles        \* the dictionaries scrape_article returned, in order

scrapevars == <<output_file, program, urls, resume, spc, scraped_data, scraped_urls,
                urls_to_scrape, pos, scraped_count, driver, outcome, runs, quits,
                file_before, fetched, articles>>

\* The state outside the search service.
othervars == <<utilvars, scrapevars>>

apivars == <<file, phase, df, vectorizer, tfidf_matrix, response, served, repl, tvars>>

vars == <<file, phase, df, vectorizer, tfidf_matrix, response,
          served, repl, tvars, othervars>>

Threads == {"t1", "t2"}

NoResponse ==
    [kind |-> "none", status |-> 0, query |-> EmptyStr, limit |-> 0,
     count |-> 0, articles |-> <<>>, top |-> <<>>, index |-> -1]
NoRepl == [kind |-> "none", query |-> EmptyStr, rows |-> <<>>]

\* The state of a freshly imported api.py (and of main.py before a search).
Fresh ==
    /\ df = NoneFrame
    /\ vectorizer = NoneVectorizer
    /\ tfidf_matrix = NoneMatrix
    /\ response = NoResponse
    /\ served = 0
    /\ repl = NoRepl
    /\ tpc = [t \in Threads |-> "idle"]
    /\ tquery = [t \in Threads |-> EmptyStr]
    /\ ttopk = [t \in Threads |-> 0]
    /\ tsimilar = [t \in Threads |-> <<>>]
    /\ tresult = [t \in Threads |-> <<>>]

NotParsed == [kind |-> "none", n |-> 0]
NotCleaned == [done |-> FALSE, s |-> <<>>]

\* No function of utils.py is being called.
UtilsIdle ==
    /\ claps_str = <<>>
    /\ parsed = NotParsed
    /\ dirty = <<>>
    /\ cleaned = NotCleaned
    /\ cleaned_again = NotCleaned

NoOutput == [exists |-> FALSE, header |-> "none", rows |-> <<>>]

\* Neither scrape_all nor scrape_urls is running.
ScraperIdle ==
    /\ output_file = NoOutput
    /\ program = "none"
    /\ scraped_count = 0
    /\ runs = 0
    /\ quits = 0
    /\ urls = <<>>
    /\ resume = FALSE
    /\ spc = "idle"
    /\ scraped_data = <<>>
    /\ scraped_urls = {}
    /\ urls_to_scrape = <<>>
    /\ pos = 0
    /\ driver = "none"
    /\ outcome = "running"
    /\ file_before = NoOutput
    /\ fetched = <<>>
    /\ articles = <<>>

Init ==
    /\ file \in Files
    /\ phase \in {"main", "wsgi", "repl", "deploy_import"}
    /\ Fresh
    /\ UtilsIdle
    /\ ScraperIdle

\* ------------------------------------------------------------ api.py load_data
\* load_data() at startup of `python api.py`.  An exception leaves the
\* globals assigned so far and ends the process.
LoadData ==
    /\ phase = "main"
    /\ IF ~file.exists
       THEN /\ df' = EmptyFrame
            /\ UNCHANGED <<vectorizer, tfidf_matrix>>
            /\ phase' = "serving"
       ELSE IF ~(TextColumns \subseteq file.columns)
       THEN \* df['subtitle']: KeyError
            /\ df' = read_csv(file)
            /\ UNCHANGED <<vectorizer, tfidf_matrix>>
            /\ phase' = "crashed"
       ELSE LET d == WithSearchText(read_csv(file))
                texts == SearchTexts(d)
            IN /\ df' = d
               /\ IF FitRaises(texts)
                  THEN /\ vectorizer' = UnfittedVectorizer
                       /\ UNCHANGED tfidf_matrix
                       /\ phase' = "crashed"
                  ELSE /\ vectorizer' = FittedVectorizer(texts)
                       /\ tfidf_matrix' = FitTransform(texts)
                       /\ phase' = "serving"
    /\ UNCHANGED <<othervars, file, response, served, repl, tvars>>

\* ------------------------------------------------------------- api.py search
\* The response of GET /search?query=q&limit=lim, given what search_articles
\* returned.
SearchResponse(q, lim, r) ==
    IF r.raised
    THEN [kind |-> "error", status |-> 500, query |-> q, limit |-> Requested(lim),
          count |-> 0, articles |-> <<>>, top |-> <<>>, index |-> -1]
    ELSE [kind |-> "search", status |-> 200, query |-> q, limit |-> Requested(lim),
          count |-> Len(r.results), articles |-> r.results, top |-> r.top, index |-> -1]

\* Variant: the handler searches before it looks at the query.
IsMissingNever(q) == FALSE

\* if not query
IsMissing(q) == IsEmptyStr(q)

BadRequest ==
    [kind |-> "error", status |-> 400, query |-> EmptyStr, limit |-> 0,
     count |-> 0, articles |-> <<>>, top |-> <<>>, index |-> -1]

\* GET /search?query=q&limit=lim, handled to completion.
Search(q, lim) ==
    /\ phase \in {"wsgi", "serving"}
    /\ IF IsMissing(q)
       THEN /\ response' = BadRequest
            /\ UNCHANGED <<df, served>>
       ELSE LET r == search_articles(df, vectorizer, tfidf_matrix, q, ParseLimit(lim))
            IN /\ df' = r.df
               /\ response' = SearchResponse(q, lim, r)
               /\ served' = Min(served + 1, MaxServed)
    /\ UNCHANGED <<othervars, file, phase, vectorizer, tfidf_matrix, repl, tvars>>

\* ---------------------------------------------------------- main.py REPL
\* query = input(...).strip(); empty input is asked again.
ReplQueries == {q \in Queries : \E w \in Words : IsToken(w) /\ q[w] > 0}

\* One search of the REPL of main.py (top_k defaults to 10).
MainSearch(q) ==
    /\ phase = "repl"
    /\ LET r == main_search_articles(file, q, TOP_K)
       IN repl' = [kind |-> r.kind, query |-> q, rows |-> r.rows]
    /\ UNCHANGED <<othervars, file, phase, df, vectorizer, tfidf_matrix, response, served, tvars>>

\* ------------------------------------------------------ api.py get_article
\* The index of /article/<int:index>: the route matches unsigned integers.
ArticleIndexes == 0..MaxRows

\* GET /article/<index>
GetArticle(index) ==
    /\ phase \in {"wsgi", "serving"}
    /\ response' =
          IF NoCorpus(df) \/ index < 0 \/ index >= Len(df.rows)
          THEN [kind |-> "notfound", status |-> 404, query |-> EmptyStr, limit |-> 0,
                count |-> 0, articles |-> <<>>, top |-> <<>>, index |-> index]
          ELSE \* df.iloc[index].to_dict()
               [kind |-> "article", status |-> 200, query |-> EmptyStr, limit |-> 0,
                count |-> 0, articles |-> <<df.rows[index + 1]>>, top |-> <<>>,
                index |-> index]
    /\ UNCHANGED <<othervars, file, phase, df, vectorizer, tfidf_matrix, served,
                   repl, tvars>>

\* --------------------------------------------------------------- api_deploy.py
\* search_simple(query, top_k=10)
DeployTopK == 10

\* load_data() of api_deploy.py, run when the module is imported.
DeployLoadData ==
    /\ phase = "deploy_import"
    /\ df' = IF file.exists THEN read_csv(file) ELSE EmptyFrame
    /\ phase' = "deploy"
    /\ UNCHANGED <<othervars, file, vectorizer, tfidf_matrix, response, served,
                   repl, tvars>>

\* str(row.get(column, '')): '' for a column the frame lacks, 'nan' for a
\* missing value.
StrGet(d, cell, column) ==
    IF column \notin d.columns THEN EmptyStr
    ELSE IF cell.na THEN Word("nan") ELSE cell.s

\* title + ' ' + text + ' ' + keywords, lower-cased
DeployText(d, r) ==
    Concat(Concat(StrGet(d, r.title, "title"), StrGet(d, r.text, "text")),
           StrGet(d, r.keywords, "keywords"))

\* sum(1 for word in query.lower().split() if word in text): every
\* occurrence of a word in the query counts.  (No word of Words is part of
\* another, so `word in text` is true of the words of the text.)
MatchScore(query, text) ==
    SumOver([w \in Words |-> IF IsToken(w) /\ text[w] > 0 THEN query[w] ELSE 0], Words)

\* row.get('claps', 0)
ClapsGet(d, r) == IF "claps" \in d.columns THEN r.claps ELSE Num(0)

\* (idx, score, claps) of the rows that match, in row order.
ScoredRows(d, query) ==
    LET entry(i) == [idx |-> d.rows[i].idx,
                     score |-> MatchScore(query, DeployText(d, d.rows[i])),
                     claps |-> ClapsGet(d, d.rows[i])]
        all == [i \in 1..Len(d.rows) |-> entry(i)]
        matches(e) == e.score > 0
    IN SelectSeq(all, matches)

\* key(x) < key(y) for key = (-score, -claps): a NaN is neither equal to
\* nor less than anything.
KeyLess(x, y) ==
    \/ x.score > y.score
    \/ x.score = y.score /\ ~x.claps.na /\ ~y.claps.na /\ x.claps.n > y.claps.n

\* Last index of the run list.sort() finds at the head of the list: strictly
\* descending, or else non-descending.
RECURSIVE RunEnd(_, _, _)
RunEnd(a, i, descending) ==
    IF i > Len(a) THEN i - 1
    ELSE IF descending = KeyLess(a[i], a[i - 1]) THEN RunEnd(a, i + 1, descending)
    ELSE i - 1

Reverse(a) == [i \in 1..Len(a) |-> a[Len(a) + 1 - i]]

\* The place the binary search of list.sort() finds for pivot in the sorted
\* slice a[l + 1 .. r] (l and r count from 0).
RECURSIVE BinaryPlace(_, _, _, _)
BinaryPlace(a, pivot, l, r) ==
    IF l >= r THEN l
    ELSE LET p == l + ((r - l) \div 2)
         IN IF KeyLess(pivot, a[p + 1]) THEN BinaryPlace(a, pivot, l, p)
            ELSE BinaryPlace(a, pivot, p + 1, r)

\* Binary insertion of a[start + 1 ..] into the sorted head a[1 .. start].
RECURSIVE BinarySort(_, _)
BinarySort(a, start) ==
    IF start >= Len(a) THEN a
    ELSE LET pivot == a[start + 1]
             l == BinaryPlace(a, pivot, 0, start)
         IN BinarySort(SubSeq(a, 1, l) \o <<pivot>> \o SubSeq(a, l + 1, start)
                          \o SubSeq(a, start + 2, Len(a)),
                       start + 1)

\* scores.sort(key=...) of a list shorter than 64: the leading run is
\* found (and reversed when descending), the rest inserted by binary search.
list_sort(a) ==
    IF Len(a) < 2 THEN a
    ELSE LET descending == KeyLess(a[2], a[1])
             n == RunEnd(a, 3, descending)
             run == IF descending THEN Reverse(SubSeq(a, 1, n)) ELSE SubSeq(a, 1, n)
         IN BinarySort(run \o SubSeq(a, n + 1, Len(a)), n)

\* The dictionary appended for one entry of scores[:top_k].
DeployResultOf(d, e) ==
    [url |-> d.rows[e.idx + 1].url,
     title |-> d.rows[e.idx + 1].title,
     claps |-> IF e.claps.na THEN 0 ELSE e.claps.n]

search_simple(d, query, top_k) ==
    IF NoCorpus(d) THEN <<>>
    ELSE LET scores == list_sort(ScoredRows(d, query))
             top == SubSeq(scores, 1, Min(top_k, Len(scores)))
         IN [i \in 1..Len(top) |-> DeployResultOf(d, top[i])]

\* The query strings sent to api_deploy.py: those of api.py, the word 'nan'
\* and a query of two words.
DeployQueries ==
    { QueryParam(qa) : qa \in QueryArgs } \cup
    { Word("nan"), [EmptyStr EXCEPT !["dogs"] = 1, !["the"] = 1, ![" "] = 1] }

\* GET /search?query=q of api_deploy.py
DeploySearch(q) ==
    /\ phase = "deploy"
    /\ response' =
          IF IsMissing(q) THEN BadRequest
          ELSE LET results == search_simple(df, q, DeployTopK)
               IN [kind |-> "html", status |-> 200, query |-> q, limit |-> DeployTopK,
                   count |-> Len(results), articles |-> results, top |-> <<>>,
                   index |-> -1]
    /\ UNCHANGED <<othervars, file, phase, df, vectorizer, tfidf_matrix, served,
                   repl, tvars>>

Next ==
    \/ LoadData
    \/ \E qa \in QueryArgs, lim \in LimitArgs : Search(QueryParam(qa), lim)
    \/ \E i \in ArticleIndexes : GetArticle(i)
    \/ \E q \in ReplQueries : MainSearch(q)
    \/ DeployLoadData
    \/ \E q \in DeployQueries : DeploySearch(q)

Spec == Init /\ [][Next]_vars

\* ------------------------------------------- api.py search, thread by thread
\* The same handler, run by request threads that interleave between the
\* statements of search_articles that read or write the global df.
ConcPool ==
    { Row("u1", CatsArticle, Num(10), Name("ann")),
      Row("u3", DogsArticle, Num(50), Name("bob")) }

ConcFiles ==
    { [exists |-> TRUE, columns |-> CsvColumns, rows |-> r] : r \in SeqsUpTo(ConcPool, MaxRows) }

ConcQueries == {Word("dogs"), Word("fish")}

ConcLimits == { [kind |-> "absent", n |-> 0] }

InitConc ==
    /\ file \in ConcFiles
    /\ phase = "main"
    /\ Fresh
    /\ UtilsIdle
    /\ ScraperIdle

\* search(): the request is parsed and search_articles(query, limit) called.
HandleRequest(t, q, lim) ==
    /\ phase \in {"wsgi", "serving"}
    /\ tpc[t] = "idle"
    /\ ~IsMissing(q)
    /\ tpc' = [tpc EXCEPT ![t] = "assign"]
    /\ tquery' = [tquery EXCEPT ![t] = q]
    /\ ttopk' = [ttopk EXCEPT ![t] = ParseLimit(lim)]
    /\ UNCHANGED <<othervars, file, phase, df, vectorizer, tfidf_matrix, response,
                   served, repl, tsimilar, tresult>>

\* search_articles up to df['similarity'] = similarities
AssignStep(t) ==
    /\ tpc[t] = "assign"
    /\ IF NoCorpus(df) \/ vectorizer.kind # "fitted" \/ tfidf_matrix.kind = "None"
       THEN /\ tpc' = [tpc EXCEPT ![t] = "done"]
            /\ tresult' = [tresult EXCEPT ![t] = <<>>]
            /\ UNCHANGED df
       ELSE /\ df' = AssignSimilarity(df,
                        cosine_similarity(Transform(vectorizer, tquery[t]), tfidf_matrix))
            /\ tpc' = [tpc EXCEPT ![t] = "filter"]
            /\ UNCHANGED tresult
    /\ UNCHANGED <<othervars, file, phase, vectorizer, tfidf_matrix, response, served, repl,
                   tquery, ttopk, tsimilar>>

\* similar_articles = df[df['similarity'] > 0].copy()
FilterStep(t) ==
    /\ tpc[t] = "filter"
    /\ tsimilar' = [tsimilar EXCEPT ![t] = FilterSimilar(df)]
    /\ tpc' = [tpc EXCEPT ![t] = "rank"]
    /\ UNCHANGED <<othervars, file, phase, df, vectorizer, tfidf_matrix, response,
                   served, repl, tquery, ttopk, tresult>>

\* the fallback df.copy(), sort_values, head and the result list
RankStep(t) ==
    /\ tpc[t] = "rank"
    /\ tresult' = [tresult EXCEPT ![t] =
           FormatResults(head(sort_values(OrAllArticles(tsimilar[t], df)), ttopk[t]))]
    /\ tpc' = [tpc EXCEPT ![t] = "done"]
    /\ UNCHANGED <<othervars, file, phase, df, vectorizer, tfidf_matrix, response,
                   served, repl, tquery, ttopk, tsimilar>>

\* search() returns the JSON response; the thread takes the next request.
Respond(t) ==
    /\ tpc[t] = "done"
    /\ tpc' = [tpc EXCEPT ![t] = "idle"]
    /\ tquery' = [tquery EXCEPT ![t] = EmptyStr]
    /\ ttopk' = [ttopk EXCEPT ![t] = 0]
    /\ tsimilar' = [tsimilar EXCEPT ![t] = <<>>]
    /\ tresult' = [tresult EXCEPT ![t] = <<>>]
    /\ UNCHANGED <<othervars, file, phase, df, vectorizer, tfidf_matrix, response,
                   served, repl>>

NextConc ==
    \/ LoadData
    \/ \E t \in Threads, q \in ConcQueries, lim \in ConcLimits : HandleRequest(t, q, lim)
    \/ \E t \in Threads : AssignStep(t)
    \/ \E t \in Threads : FilterStep(t)
    \/ \E t \in Threads : RankStep(t)
    \/ \E t \in Threads : Respond(t)

SpecConc == InitConc /\ [][NextConc]_vars

\* ------------------------------------------------------- utils.py parse_claps
\* Longest claps string tried.
MaxClapsLen == 4

\* The characters of a claps string: digits, the decimal point, the
\* suffixes, a blank and letters (that spell "inf").
ClapsChars == {"0", "1", ".", "K", "k", "M", " ", "i", "n", "f"}

Digits == {"0", "1"}

ClapsStrings == SeqsUpTo(ClapsChars, MaxClapsLen)

RECURSIVE LStrip(_)
LStrip(s) == IF s # <<>> /\ Head(s) = " " THEN LStrip(Tail(s)) ELSE s

RECURSIVE RStrip(_)
RStrip(s) ==
    IF s # <<>> /\ s[Len(s)] = " " THEN RStrip(SubSeq(s, 1, Len(s) - 1)) ELSE s

\* str.strip()
Strip(s) == RStrip(LStrip(s))

UpperChar(c) ==
    CASE c = "k" -> "K" [] c = "i" -> "I" [] c = "n" -> "N" [] c = "f" -> "F"
      [] OTHER -> c

\* str.upper()
Upper(s) == [i \in 1..Len(s) |-> UpperChar(s[i])]

\* c in s
Contains(s, c) == \E i \in 1..Len(s) : s[i] = c

\* s.replace(c, '')
Remove(s, c) == LET keep(x) == x # c IN SelectSeq(s, keep)

IsDigits(s) == s # <<>> /\ \A i \in 1..Len(s) : s[i] \in Digits

DigitValue(c) == IF c = "1" THEN 1 ELSE 0

RECURSIVE DigitsValue(_)
DigitsValue(s) ==
    IF s = <<>> THEN 0
    ELSE 10 * DigitsValue(SubSeq(s, 1, Len(s) - 1)) + DigitValue(s[Len(s)])

RECURSIVE Pow10(_)
Pow10(d) == IF d = 0 THEN 1 ELSE 10 * Pow10(d - 1)

\* int(s): surrounding blanks are skipped; anything but digits is a
\* ValueError.
ParseInt(s) ==
    LET t == Strip(s)
    IN IF IsDigits(t) THEN [kind |-> "int", n |-> DigitsValue(t)]
       ELSE [kind |-> "ValueError", n |-> 0]

\* float(s): a decimal m / 10^d, infinity, or a ValueError.
ParseFloat(s) ==
    LET t == Strip(s)
        dots == {i \in 1..Len(t) : t[i] = "."}
    IN IF t = <<"I", "N", "F">> THEN [kind |-> "inf", m |-> 0, d |-> 0]
       ELSE IF /\ \A i \in 1..Len(t) : t[i] \in Digits \cup {"."}
               /\ Cardinality(dots) <= 1
               /\ \E i \in 1..Len(t) : t[i] \in Digits
       THEN [kind |-> "float", m |-> DigitsValue(Remove(t, ".")),
             d |-> IF dots = {} THEN 0 ELSE Len(t) - (CHOOSE i \in dots : TRUE)]
       ELSE [kind |-> "ValueError", m |-> 0, d |-> 0]

\* int(number * factor) under `except ValueError: return 0`: int() of an
\* infinity raises OverflowError, which is not caught.  (The product of
\* doubles is exact for the strings of up to 5 characters of ClapsChars.)
Scaled(number, factor) ==
    CASE number.kind = "float" ->
             [kind |-> "int", n |-> (number.m * factor) \div Pow10(number.d)]
      [] number.kind = "inf" -> [kind |-> "raise", n |-> 0]
      [] OTHER -> [kind |-> "int", n |-> 0]

parse_claps(str) ==
    IF str = <<>> THEN [kind |-> "int", n |-> 0]
    ELSE LET s == Upper(Strip(str))
         IN IF Contains(s, "K") THEN Scaled(ParseFloat(Remove(s, "K")), 1000)
            ELSE IF Contains(s, "M") THEN Scaled(ParseFloat(Remove(s, "M")), 1000000)
            ELSE IF ParseInt(s).kind = "int" THEN ParseInt(s)
            ELSE [kind |-> "int", n |-> 0]

\* Everything but the call of parse_claps is at rest.
InitClaps ==
    /\ file = NoFile
    /\ phase = "utils"
    /\ Fresh
    /\ claps_str \in ClapsStrings
    /\ parsed = NotParsed
    /\ dirty = <<>>
    /\ cleaned = NotCleaned
    /\ cleaned_again = NotCleaned
    /\ ScraperIdle

\* parse_claps(claps_str)
ParseClaps ==
    /\ parsed = NotParsed
    /\ parsed' = parse_claps(claps_str)
    /\ UNCHANGED <<apivars, scrapevars, claps_str, dirty, cleaned, cleaned_again>>

NextClaps == ParseClaps

SpecClaps == InitClaps /\ [][NextClaps]_vars

\* -------------------------------------------------------- utils.py clean_text
\* Longest text tried.
MaxTextLen == 5

\* The characters of a text: a letter, a blank, a newline and a letter
\* outside ASCII.
TextChars == {"a", " ", "\n", "U+00E9"}

Texts == SeqsUpTo(TextChars, MaxTextLen)

\* What the pattern \s matches.
IsSpace(c) == c \in {" ", "\n"}

IsAscii(c) == c # "U+00E9"

RECURSIVE CollapseSpaces(_)
\* re.sub(r'\s+', ' ', text): every run of whitespace becomes one blank.
CollapseSpaces(s) ==
    IF s = <<>> THEN <<>>
    ELSE IF IsSpace(Head(s))
         THEN IF Len(s) > 1 /\ IsSpace(s[2]) THEN CollapseSpaces(Tail(s))
              ELSE <<" ">> \o CollapseSpaces(Tail(s))
         ELSE <<Head(s)>> \o CollapseSpaces(Tail(s))

\* text.encode('ascii', 'ignore').decode('ascii')
AsciiOnly(s) == SelectSeq(s, IsAscii)

clean_text(s) ==
    IF s = <<>> THEN <<>> ELSE Strip(AsciiOnly(CollapseSpaces(s)))

InitClean ==
    /\ file = NoFile
    /\ phase = "utils"
    /\ Fresh
    /\ claps_str = <<>>
    /\ parsed = NotParsed
    /\ dirty \in Texts
    /\ cleaned = NotCleaned
    /\ cleaned_again = NotCleaned
    /\ ScraperIdle

\* clean_text(dirty)
CleanText ==
    /\ ~cleaned.done
    /\ cleaned' = [done |-> TRUE, s |-> clean_text(dirty)]
    /\ UNCHANGED <<apivars, scrapevars, claps_str, parsed, dirty, cleaned_again>>

\* clean_text of the text clean_text returned
CleanAgain ==
    /\ cleaned.done /\ ~cleaned_again.done
    /\ cleaned_again' = [done |-> TRUE, s |-> clean_text(cleaned.s)]
    /\ UNCHANGED <<apivars, scrapevars, claps_str, parsed, dirty, cleaned>>

NextClean == CleanText \/ CleanAgain

SpecClean == InitClean /\ [][NextClean]_vars

\* --------------------------------------------------------- scraper.py scrape_all
\* Longest list of urls given to one call.
MaxUrls == 2

\* if len(scraped_data) % 10 == 0: save_to_csv(...)
SaveEvery == 10

Urls == {"a", "b"}

UrlLists == SeqsUpTo(Urls, MaxUrls)

\* A line of the output file: its url and whose fields it has ("scraper": the
\* 12 fieldnames of save_to_csv; "main": the 13 CSV_COLUMNS of main.py).
\* A dictionary of scraped_data or of a DictReader: the value under 'url'
\* and its keys ("scraper", "main", "scraper+rest": the 12 fieldnames and
\* the restkey None; "values": the values of a first line that is no header).
Article(url, columns) == [url |-> url, columns |-> columns]

\* The file exists and is empty.
EmptyOutput == [exists |-> TRUE, header |-> "none", rows |-> <<>>]

\* The data rows the output file may hold when the first call starts.
OldRows(h) ==
    { <<>>, <<Article("a", h)>>,
      [i \in 1..(SaveEvery - 1) |-> Article("z", h)],
      [i \in 1..(SaveEvery - 1) |-> Article(IF i = 1 THEN "a" ELSE "z", h)] }

\* The output file when the first call starts: absent, empty, or written by
\* an earlier run of scraper.py or of main.py.
OutputFiles ==
    { NoOutput, EmptyOutput } \cup
    UNION { { [exists |-> TRUE, header |-> h, rows |-> r] : r \in OldRows(h) } :
            h \in {"scraper", "main"} }

\* The keys csv.DictReader gives a line of format `fields` under header h:
\* a 13th field goes under the restkey None.
KeysUnder(h, fields) ==
    IF h = "scraper" /\ fields = "main" THEN "scraper+rest" ELSE h

\* csv.DictReader(f): one dictionary per line after the first, keyed by the
\* first line.  In a file that starts without a header row the first data
\* line is taken for the header, and no dictionary has the key 'url'
\* (row.get('url', '') is '').
DictReader(f) ==
    IF f.header = "none"
    THEN [i \in 1..(Len(f.rows) - 1) |-> Article("", "values")]
    ELSE [i \in 1..Len(f.rows) |->
             Article(f.rows[i].url, KeysUnder(f.header, f.rows[i].columns))]

\* Variant: every url is scraped
FilterNone(list, seen) == list

\* [u for u in urls if u not in scraped_urls]
FilterUrls(list, seen) == LET unseen(u) == u \notin seen IN SelectSeq(list, unseen)

\* The rows DictWriter.writerows writes before it meets a dictionary with a
\* key that is no fieldname (ValueError).
RECURSIVE WritableHead(_)
WritableHead(data) ==
    IF data = <<>> \/ Head(data).columns # "scraper" THEN <<>>
    ELSE <<Head(data)>> \o WritableHead(Tail(data))

\* save_to_csv(data, output_file): the file it leaves, and whether it raised.
save_to_csv(data, f) ==
    IF data = <<>> THEN [file |-> f, raised |-> FALSE]
    ELSE [file |-> [exists |-> TRUE, header |-> "scraper", rows |-> WritableHead(data)],
          raised |-> WritableHead(data) # data]

\* The files a KeyboardInterrupt inside save_to_csv may leave: the file was
\* opened with 'w' (emptied), then the header written, then row after row.
InterruptedSaves(data) ==
    IF data = <<>> THEN {}
    ELSE { EmptyOutput } \cup
         { [exists |-> TRUE, header |-> "scraper",
            rows |-> SubSeq(WritableHead(data), 1, k)] :
             k \in 0..(Len(WritableHead(data)) - 1) }

\* What a call of save_to_csv may do: run to its end, or be interrupted.
SaveOutcomes(data, f) ==
    { [file |-> save_to_csv(data, f).file,
       result |-> IF save_to_csv(data, f).raised THEN "ValueError" ELSE "ok"] } \cup
    { [file |-> g, result |-> "interrupted"] : g \in InterruptedSaves(data) }

\* The call has not read, fetched or counted anything yet.
CallFresh ==
    /\ scraped_data = <<>>
    /\ scraped_urls = {}
    /\ urls_to_scrape = <<>>
    /\ pos = 0
    /\ scraped_count = 0
    /\ driver = "none"
    /\ outcome = "running"
    /\ quits = 0
    /\ fetched = <<>>
    /\ articles = <<>>

InitScrape ==
    /\ file = NoFile
    /\ phase = "scraper"
    /\ Fresh
    /\ UtilsIdle
    /\ output_file \in OutputFiles
    /\ program = "scraper"
    /\ urls \in UrlLists
    /\ resume \in BOOLEAN
    /\ spc = "start"
    /\ runs = 1
    /\ file_before = output_file
    /\ CallFresh

\* scrape_all up to the loop: the existing rows are read (the read may
\* raise), the urls filtered, and the browser created (create_driver may
\* raise).
ScrapeAllStart(read_ok, driver_ok) ==
    /\ program = "scraper" /\ spc = "start"
    /\ LET reads == resume /\ output_file.exists
           existing == IF reads /\ read_ok THEN DictReader(output_file) ELSE <<>>
           seen == {existing[i].url : i \in 1..Len(existing)}
           todo == FilterUrls(urls, seen)
       IN /\ scraped_data' = existing
          /\ scraped_urls' = seen
          /\ IF reads /\ ~read_ok
             THEN /\ spc' = "done" /\ outcome' = "error"
                  /\ UNCHANGED <<urls_to_scrape, driver, pos>>
             ELSE /\ urls_to_scrape' = todo
                  /\ IF todo = <<>>
                     THEN spc' = "done" /\ outcome' = "returned" /\ UNCHANGED <<driver, pos>>
                     ELSE IF driver_ok
                     THEN spc' = "loop" /\ driver' = "open" /\ pos' = 1 /\ UNCHANGED outcome
                     ELSE spc' = "done" /\ outcome' = "error" /\ UNCHANGED <<driver, pos>>
    /\ UNCHANGED <<apivars, utilvars, output_file, program, urls, resume, scraped_count,
                   runs, quits, file_before, fetched, articles>>

\* One turn of the loop: scrape_article(driver, url) returns a dictionary
\* or None; a dictionary is appended, and the data saved when its length is
\* a multiple of 10.
ScrapeNext(found) ==
    /\ program = "scraper" /\ spc = "loop" /\ pos <= Len(urls_to_scrape)
    /\ LET url == urls_to_scrape[pos]
           result == Article(url, "scraper")
           data == IF found THEN Append(scraped_data, result) ELSE scraped_data
           saves == IF found /\ Len(data) % SaveEvery = 0
                    THEN SaveOutcomes(data, output_file)
                    ELSE { [file |-> output_file, result |-> "ok"] }
       IN /\ fetched' = Append(fetched, url)
          /\ articles' = IF found THEN Append(articles, result) ELSE articles
          /\ scraped_data' = data
          /\ \E saved \in saves :
                /\ output_file' = saved.file
                /\ IF saved.result = "ok"
                   THEN pos' = pos + 1 /\ UNCHANGED <<spc, outcome>>
                   ELSE spc' = "finally" /\ outcome' = saved.result /\ UNCHANGED pos
    /\ UNCHANGED <<apivars, utilvars, program, urls, resume, scraped_urls, urls_to_scrape,
                   scraped_count, driver, runs, quits, file_before>>

\* The final save_to_csv after the loop.
FinalSave ==
    /\ program = "scraper" /\ spc = "loop" /\ pos > Len(urls_to_scrape)
    /\ \E saved \in SaveOutcomes(scraped_data, output_file) :
          /\ output_file' = saved.file
          /\ outcome' = IF saved.result = "ok" THEN "returned" ELSE saved.result
    /\ spc' = "finally"
    /\ UNCHANGED <<apivars, utilvars, program, urls, resume, scraped_data, scraped_urls,
                   urls_to_scrape, pos, scraped_count, driver, runs, quits, file_before,
                   fetched, articles>>

\* KeyboardInterrupt between two turns of the loop.
Interrupt ==
    /\ program = "scraper" /\ spc = "loop" /\ pos <= Len(urls_to_scrape)
    /\ spc' = "finally"
    /\ outcome' = "interrupted"
    /\ UNCHANGED <<apivars, utilvars, output_file, program, urls, resume, scraped_data,
                   scraped_urls, urls_to_scrape, pos, scraped_count, driver, runs, quits,
                   file_before, fetched, articles>>

\* finally: driver.quit()
QuitDriver ==
    /\ spc = "finally"
    /\ driver' = "quit"
    /\ quits' = quits + 1
    /\ spc' = "done"
    /\ UNCHANGED <<apivars, utilvars, output_file, program, urls, resume, scraped_data,
                   scraped_urls, urls_to_scrape, pos, scraped_count, outcome, runs,
                   file_before, fetched, articles>>

NextScrape ==
    \/ \E read_ok, driver_ok \in BOOLEAN : ScrapeAllStart(read_ok, driver_ok)
    \/ \E found \in BOOLEAN : ScrapeNext(found)
    \/ FinalSave
    \/ Interrupt
    \/ QuitDriver

SpecScrape == InitScrape /\ [][NextScrape]_vars

\* ----------------------------------------------------------- main.py scrape_urls
\* scrape_urls up to the loop: the browser is created first (create_driver
\* may raise), then the urls of the existing file are read (the read may
\* raise, and row['url'] raises KeyError on a dictionary without that key),
\* the urls filtered, and the header written when there is no file yet.
ScrapeUrlsStart(driver_ok, read_ok) ==
    /\ program = "main" /\ spc = "start"
    /\ LET existing == IF output_file.exists THEN DictReader(output_file) ELSE <<>>
           readable == \/ ~output_file.exists
                       \/ read_ok /\ \A i \in 1..Len(existing) : existing[i].columns # "values"
           seen == {existing[i].url : i \in 1..Len(existing)}
           todo == FilterUrls(urls, seen)
       IN IF ~driver_ok
          THEN /\ spc' = "done" /\ outcome' = "error"
               /\ UNCHANGED <<output_file, scraped_urls, urls_to_scrape, pos, driver, quits>>
          ELSE IF ~readable
          THEN /\ driver' = "open"
               /\ spc' = "done" /\ outcome' = "error"
               /\ UNCHANGED <<output_file, scraped_urls, urls_to_scrape, pos, quits>>
          ELSE /\ scraped_urls' = seen
               /\ urls_to_scrape' = todo
               /\ IF todo = <<>>
                  THEN /\ driver' = "quit" /\ quits' = quits + 1
                       /\ spc' = "done" /\ outcome' = "returned"
                       /\ UNCHANGED <<output_file, pos>>
                  ELSE /\ driver' = "open"
                       /\ output_file' =
                             IF output_file.exists THEN output_file
                             ELSE [exists |-> TRUE, header |-> "main", rows |-> <<>>]
                       /\ spc' = "loop" /\ pos' = 1
                       /\ UNCHANGED <<outcome, quits>>
    /\ UNCHANGED <<apivars, utilvars, program, urls, resume, scraped_data, scraped_count,
                   runs, file_before, fetched, articles>>

\* One turn of the loop: a dictionary returned by scrape_article is
\* appended to the file as one line and counted.
ScrapeUrlsNext(found) ==
    /\ program = "main" /\ spc = "loop" /\ pos <= Len(urls_to_scrape)
    /\ LET url == urls_to_scrape[pos]
           result == Article(url, "main")
       IN /\ fetched' = Append(fetched, url)
          /\ IF found
             THEN /\ output_file' = [output_file EXCEPT !.rows = Append(@, result)]
                  /\ scraped_count' = scraped_count + 1
                  /\ articles' = Append(articles, result)
             ELSE UNCHANGED <<output_file, scraped_count, articles>>
    /\ pos' = pos + 1
    /\ UNCHANGED <<apivars, utilvars, program, urls, resume, spc, scraped_data,
                   scraped_urls, urls_to_scrape, driver, outcome, runs, quits, file_before>>

\* except KeyboardInterrupt: between two turns of the loop.
ScrapeUrlsInterrupt ==
    /\ program = "main" /\ spc = "loop" /\ pos <= Len(urls_to_scrape)
    /\ spc' = "finally"
    /\ outcome' = "interrupted"
    /\ UNCHANGED <<apivars, utilvars, output_file, program, urls, resume, scraped_data,
                   scraped_urls, urls_to_scrape, pos, scraped_count, driver, runs, quits,
                   file_before, fetched, articles>>

\* The loop has gone through urls_to_scrape.
ScrapeUrlsEnd ==
    /\ program = "main" /\ spc = "loop" /\ pos > Len(urls_to_scrape)
    /\ spc' = "finally"
    /\ outcome' = "returned"
    /\ UNCHANGED <<apivars, utilvars, output_file, program, urls, resume, scraped_data,
                   scraped_urls, urls_to_scrape, pos, scraped_count, driver, runs, quits,
                   file_before, fetched, articles>>

\* ------------------------------------------- runs of scraper.py and main.py
\* The calls made one after the other on the same output file.
MaxRuns == 2

\* The calls: scrape_all(urls, output_file, resume) of scraper.py,
\* scrape_urls(urls, OUTPUT_CSV) of main.py.
Calls ==
    { [program |-> "scraper", urls |-> u, resume |-> r] : u \in UrlLists, r \in BOOLEAN }
    \cup { [program |-> "main", urls |-> u, resume |-> TRUE] : u \in UrlLists }

\* No call has been made: the output file is absent or empty.
InitRuns ==
    /\ file = NoFile
    /\ phase = "scraper"
    /\ Fresh
    /\ UtilsIdle
    /\ output_file \in {NoOutput, EmptyOutput}
    /\ program = "none"
    /\ urls = <<>>
    /\ resume = TRUE
    /\ spc = "done"
    /\ runs = 0
    /\ file_before = output_file
    /\ CallFresh

\* The next call starts where the last one left the file.
StartRun(call) ==
    /\ spc = "done" /\ runs < MaxRuns
    /\ program' = call.program
    /\ urls' = call.urls
    /\ resume' = call.resume
    /\ spc' = "start"
    /\ runs' = runs + 1
    /\ file_before' = output_file
    /\ scraped_data' = <<>>
    /\ scraped_urls' = {}
    /\ urls_to_scrape' = <<>>
    /\ pos' = 0
    /\ scraped_count' = 0
    /\ driver' = "none"
    /\ outcome' = "running"
    /\ quits' = 0
    /\ fetched' = <<>>
    /\ articles' = <<>>
    /\ UNCHANGED <<apivars, utilvars, output_file>>

NextRuns ==
    \/ \E call \in Calls : StartRun(call)
    \/ \E read_ok, driver_ok \in BOOLEAN : ScrapeAllStart(read_ok, driver_ok)
    \/ \E found \in BOOLEAN : ScrapeNext(found)
    \/ FinalSave
    \/ Interrupt
    \/ \E driver_ok, read_ok \in BOOLEAN : ScrapeUrlsStart(driver_ok, read_ok)
    \/ \E found \in BOOLEAN : ScrapeUrlsNext(found)
    \/ ScrapeUrlsInterrupt
    \/ ScrapeUrlsEnd
    \/ QuitDriver

SpecRuns == InitRuns /\ [][NextRuns]_vars

\* =================================================================== claims
\* The df load_data leaves, before any query.
LoadedFrame(f) == WithSearchText(read_csv(f))

\* The limit search_articles is called with, for a requested limit.
EffectiveLimit(requested) == Min(requested, HardCap)

\* Length of head(n) of a frame of len rows.
HeadLen(n, len) == IF n >= 0 THEN Min(n, len) ELSE Max(0, len + n)

\* A /search request was answered by a search over the loaded corpus.
Answered == phase = "serving" /\ response.kind = "search"

\* Similarity of row i of the loaded corpus to the query of the last request.
SimOf(i) == Cosine(Transform(vectorizer, response.query), tfidf_matrix.rows[i])

Rows == 1..Len(df.rows)
Positive == {i \in Rows : SimOf(i) > 0}

\* The row of df behind the i-th returned article.
TopRow(i) == df.rows[response.top[i] + 1]

\* C1: the number of articles returned by /search is at most
\* min(requested limit, 50, corpus size), for every limit, zero and negative
\* ones included (no article when that minimum is below zero).
ResultCountWithinLimit ==
    response.kind = "search" =>
        response.count <= Max(0, Min(Min(response.limit, HardCap), Len(df.rows)))

\* C2: queries served concurrently by threads, without a lock, each return
\* exactly the list they return when run alone.
ConcurrentAnswersAsAlone ==
    \A t \in Threads :
        tpc[t] = "done" =>
            tresult[t] = search_articles(LoadedFrame(file), vectorizer, tfidf_matrix,
                                         tquery[t], ttopk[t]).results

\* C3: once load_data has built the index, no query changes the global df,
\* the vectorizer or the tfidf_matrix.
QueryIsReadOnly ==
    [][phase = "serving" =>
          /\ df' = df
          /\ vectorizer' = vectorizer
          /\ tfidf_matrix' = tfidf_matrix]_vars

\* The query shares no vocabulary term with the text of any of the rows.
SharesNoTerm(query, rows) ==
    \A i \in 1..Len(rows) : Dot(Analyze(query), Analyze(SearchText(rows[i]))) = 0

\* Rank of a claps cell in a descending order of claps (claps are counts,
\* never negative); a missing value comes last.
ClapsRank(c) == IF c.na THEN -1 ELSE c.n

Returned == 1..Len(response.top)

\* The returned articles are distinct rows of df, reported field by field.
ReportsTopRows ==
    /\ response.count = Len(response.top)
    /\ Len(response.articles) = Len(response.top)
    /\ \A i \in Returned : response.top[i] + 1 \in Rows
    /\ \A i, j \in Returned : i # j => response.top[i] # response.top[j]
    /\ \A i \in Returned :
          /\ response.articles[i].url = TopRow(i).url
          /\ response.articles[i].title = TopRow(i).title
          /\ response.articles[i].claps = Max(0, ClapsRank(TopRow(i).claps))

\* A search of the REPL ran on a file with data rows.
ReplAnswered ==
    phase = "repl" /\ repl.kind # "none" /\ file.exists /\ file.rows # <<>>

\* C4 (as claimed): when the query shares no vocabulary term with any
\* document of a non-empty corpus, the search returns the full corpus in
\* descending order of claps with similarity 0, in api.py and in main.py.
FallbackReturnsWholeCorpus ==
    /\ (Answered /\ ~IsEmptyFrame(df) /\ SharesNoTerm(response.query, df.rows)) =>
          /\ response.count = Len(df.rows)
          /\ \A i \in 1..Len(response.articles) :
                response.articles[i].similarity_score = 0
          /\ \A i, j \in 1..Len(response.articles) :
                i < j => response.articles[i].claps >= response.articles[j].claps
    /\ (ReplAnswered /\ SharesNoTerm(repl.query, file.rows)) =>
          /\ repl.kind = "frame"
          /\ Len(repl.rows) = Len(file.rows)
          /\ \A i \in 1..Len(repl.rows) : repl.rows[i].similarity = 0
          /\ \A i, j \in 1..Len(repl.rows) :
                i < j => ClapsRank(repl.rows[i].claps) >= ClapsRank(repl.rows[j].claps)

\* C4 (amended): when the query shares no vocabulary term with any document
\* of a non-empty corpus, api.py returns head(limit) of the corpus in
\* descending order of claps (missing claps last, reported as 0), each with
\* similarity_score 0; main.py has no fallback and returns no article (an
\* empty frame, or the ValueError of a corpus without any term).
FallbackByClaps ==
    /\ (Answered /\ ~IsEmptyFrame(df) /\ SharesNoTerm(response.query, df.rows)) =>
          /\ ReportsTopRows
          /\ response.count = HeadLen(EffectiveLimit(response.limit), Len(df.rows))
          /\ \A i \in Returned : response.articles[i].similarity_score = 0
          /\ \A i, j \in Returned :
                i < j => ClapsRank(TopRow(i).claps) >= ClapsRank(TopRow(j).claps)
          /\ \A i \in Returned, o \in Rows :
                (\A j \in Returned : response.top[j] + 1 # o) =>
                    ClapsRank(TopRow(i).claps) >= ClapsRank(df.rows[o].claps)
    /\ (ReplAnswered /\ SharesNoTerm(repl.query, file.rows)) =>
          \/ repl.kind = "raise"
          \/ repl.kind = "frame" /\ repl.rows = <<>>

\* C4 witness: a fallback answer of api.py whose order is not the row order.
FallbackSeen ==
    /\ Answered /\ SharesNoTerm(response.query, df.rows)
    /\ \E i, j \in Returned :
          /\ i < j /\ response.top[i] > response.top[j]
          /\ ClapsRank(TopRow(i).claps) > ClapsRank(TopRow(j).claps)

\* The REPL met a query without a shared term, and returned an empty frame.
ReplFallbackSeen ==
    ReplAnswered /\ SharesNoTerm(repl.query, file.rows) /\ repl.kind = "frame"

\* C5: if at least one document has similarity > 0, every returned document
\* has similarity > 0 and the documents with similarity > 0 are all returned
\* up to the cut of head(limit).
OnlySimilarReturned ==
    (Answered /\ Positive # {}) =>
        /\ ReportsTopRows
        /\ \A i \in Returned : response.top[i] + 1 \in Positive
        /\ response.count = HeadLen(EffectiveLimit(response.limit), Cardinality(Positive))

\* C5 witness: an answer that left out a document of similarity 0.
SimilarFilterSeen ==
    Answered /\ Positive # {} /\ Positive # Rows /\ response.count >= 1

\* C6 (as claimed): results are in descending order of similarity_score,
\* and two results of identical reported similarity_score are in descending
\* order of their reported claps.
ReportedScoreThenClapsOrder ==
    response.kind = "search" =>
        \A i, j \in 1..Len(response.articles) :
            i < j =>
                /\ response.articles[i].similarity_score
                       >= response.articles[j].similarity_score
                /\ response.articles[i].similarity_score
                       = response.articles[j].similarity_score
                   => response.articles[i].claps >= response.articles[j].claps

\* C6 (amended): results are in descending order of the unrounded
\* similarity (so the reported similarity_score never increases), and two
\* results of identical unrounded similarity are in descending order of
\* claps, missing claps last.
SimilarityThenClapsOrder ==
    Answered =>
        /\ ReportsTopRows
        /\ \A i, j \in Returned :
              i < j =>
                  /\ SimOf(response.top[i] + 1) >= SimOf(response.top[j] + 1)
                  /\ response.articles[i].similarity_score
                         >= response.articles[j].similarity_score
                  /\ SimOf(response.top[i] + 1) = SimOf(response.top[j] + 1)
                     => ClapsRank(TopRow(i).claps) >= ClapsRank(TopRow(j).claps)

\* C6 witness: two results of equal similarity > 0 that the tie-break put
\* in another order than the rows of the file.
TieBreakSeen ==
    /\ Answered
    /\ \E i, j \in Returned :
          /\ i < j /\ response.top[i] > response.top[j]
          /\ SimOf(response.top[i] + 1) > 0
          /\ SimOf(response.top[i] + 1) = SimOf(response.top[j] + 1)
          /\ ClapsRank(TopRow(i).claps) > ClapsRank(TopRow(j).claps)

\* C7: the same query with the same limit always yields the same ordered
\* output, whatever queries ran before it: every answer is the one the
\* query gets as the first query after load_data.
SameAnswerEveryTime ==
    Answered =>
        response.articles =
            search_articles(LoadedFrame(file), vectorizer, tfidf_matrix,
                            response.query, EffectiveLimit(response.limit)).results

\* C7 witness: an answer with articles, given after earlier searches.
RepeatedSearchSeen == Answered /\ served = MaxServed /\ response.count >= 1

RowOrders(n) == {p \in [1..n -> 1..n] : \A i, j \in 1..n : i # j => p[i] # p[j]}

\* The answer of a server started on a file with these data rows.
AnswerOn(rows, query, top_k) ==
    LET d == LoadedFrame([exists |-> TRUE, columns |-> file.columns, rows |-> rows])
        texts == SearchTexts(d)
    IN search_articles(d, FittedVectorizer(texts), FitTransform(texts),
                       query, top_k).results

\* The answer is the one every reordering of the file's rows gives.
SameAnswerInAnyRowOrder ==
    \A p \in RowOrders(Len(file.rows)) :
        AnswerOn([i \in 1..Len(file.rows) |-> file.rows[p[i]]], response.query,
                 EffectiveLimit(response.limit)) = response.articles

\* Rows that tie in similarity and in claps are reported alike.
TiedRowsAlike ==
    \A i, j \in Rows :
        (SimOf(i) = SimOf(j) /\ df.rows[i].claps = df.rows[j].claps) =>
            /\ df.rows[i].url = df.rows[j].url
            /\ df.rows[i].title = df.rows[j].title
            /\ df.rows[i].author_name = df.rows[j].author_name

\* C8 (as claimed): two corpora with the same documents in different row
\* orders give the same sequence of results, also when documents have
\* equal similarity and equal claps.
RowOrderIndependent == Answered => SameAnswerInAnyRowOrder

\* C8 (amended): two corpora with the same documents in different row
\* orders give the same sequence of results, provided the documents that
\* tie in both similarity and claps are the same in url, title and author
\* (documents that tie in both keep the order of the rows).
RowOrderIndependentUnlessTied ==
    (Answered /\ TiedRowsAlike) => SameAnswerInAnyRowOrder

\* C8 witness: an answer in another order than the rows of the file.
ReorderedAnswerSeen ==
    /\ Answered /\ TiedRowsAlike
    /\ \E i, j \in Returned : i < j /\ response.top[i] > response.top[j]

\* C9: when the source does not exist or holds no data row, load_data
\* returns with an empty corpus and every query gets an empty list.
EmptySourceServes ==
    (~file.exists \/ file.rows = <<>>) =>
        /\ phase # "crashed"
        /\ phase = "serving" => IsEmptyFrame(df)
        /\ (phase = "serving" /\ response.kind \in {"search", "error"}
               /\ response.status # 400) =>
              response.kind = "search" /\ response.count = 0

\* A query with text was answered while load_data never ran.
AnsweredBeforeBuild ==
    phase = "wsgi" /\ response.kind \in {"search", "error"} /\ response.status # 400

\* C10 (as claimed): a query before load_data has run fails with an
\* error instead of returning a result list.
QueryBeforeBuildFails == AnsweredBeforeBuild => response.kind = "error"

\* C10 (amended): a query before load_data has run (df is None) returns
\* the empty result list, count 0, without any error.
QueryBeforeBuildIsEmpty ==
    AnsweredBeforeBuild =>
        /\ response.kind = "search" /\ response.status = 200
        /\ response.count = 0 /\ response.articles = <<>>
        /\ df = NoneFrame

\* C10 witness
QueryBeforeBuildSeen == AnsweredBeforeBuild /\ response.status = 200

\* A /search request was answered by api.py or api_deploy.py.
SearchAnswered == response.kind \in {"search", "error", "html"}

\* C11: a /search request with a missing or empty query parameter is
\* answered with HTTP 400, by api.py and by api_deploy.py, and the step that
\* answers it runs no search and changes nothing but the response.
EmptyQueryIsClientError ==
    /\ [](SearchAnswered /\ response.query = EmptyStr => response.status = 400)
    /\ [][(response'.status = 400 /\ response' # response) =>
             /\ response'.kind = "error" /\ response'.count = 0
             /\ df' = df /\ vectorizer' = vectorizer /\ tfidf_matrix' = tfidf_matrix
             /\ served' = served /\ file' = file /\ phase' = phase]_vars

\* C11 witness: api.py answered 400 after it had run a search.
BadRequestSeen ==
    /\ phase = "serving" /\ response = BadRequest
    /\ served >= 1 /\ "similarity" \in df.columns

\* api_deploy.py answered 400 with a corpus loaded.
DeployBadRequestSeen == phase = "deploy" /\ response = BadRequest /\ ~IsEmptyFrame(df)

\* The string is not empty but has no token left after tokenization: only
\* whitespace and stop words.
Tokenless(q) ==
    /\ q # EmptyStr
    /\ \A w \in Words : q[w] > 0 => (w = " " \/ w \in StopWords)

\* C12: a query that is empty after tokenization (only stop words or only
\* whitespace) does not raise and takes the popularity fallback: on a
\* non-empty corpus (with the claps and author_name columns the result is
\* read from) the documents of head(limit) come in descending order of claps,
\* each with similarity_score 0.
TokenlessQueryFallsBack ==
    (/\ phase = "serving" /\ response.kind \in {"search", "error"}
     /\ Tokenless(response.query) /\ ~IsEmptyFrame(df)
     /\ {"claps", "author_name"} \subseteq df.columns) =>
        /\ response.kind = "search" /\ response.status = 200
        /\ ReportsTopRows
        /\ response.count = HeadLen(EffectiveLimit(response.limit), Len(df.rows))
        /\ \A i \in Returned :
              /\ response.articles[i].similarity_score = 0
              /\ TopRow(i).similarity = 0
        /\ \A i, j \in Returned :
              i < j => ClapsRank(TopRow(i).claps) >= ClapsRank(TopRow(j).claps)

\* C12 witness: a stop-word query answered with two documents, one of them
\* holding the stop word, in another order than the rows.
TokenlessFallbackSeen ==
    /\ Answered /\ Tokenless(response.query)
    /\ \E i \in Rows : df.rows[i].search_text["the"] > 0
    /\ \E i, j \in Returned : i < j /\ response.top[i] > response.top[j]

\* C13: nothing is deduplicated at load or at query time: the corpus has
\* one document per data row of the file, and two identical rows that match
\* the query are both returned, as separate results, whenever the limit
\* leaves room for every matching document.
DuplicateRowsBothReturned ==
    /\ (phase = "serving" /\ file.exists) => Len(df.rows) = Len(file.rows)
    /\ Answered =>
          \A i, j \in Rows :
              (/\ i < j /\ i <= Len(file.rows) /\ j <= Len(file.rows)
               /\ file.rows[i] = file.rows[j]
               /\ SimOf(i) > 0
               /\ Cardinality(Positive) <= EffectiveLimit(response.limit)) =>
                  \E a, b \in Returned :
                      /\ a # b
                      /\ response.top[a] = i - 1 /\ response.top[b] = j - 1
                      /\ response.articles[a].url = file.rows[i].url
                      /\ response.articles[b].url = file.rows[j].url

\* C13 witness: two identical rows, both in the answer.
DuplicateRowsSeen ==
    /\ Answered /\ Len(file.rows) = 2 /\ file.rows[1] = file.rows[2]
    /\ response.count = 2 /\ response.articles[1].similarity_score > 0

\* C14: load_data and search_articles complete without raising on a file
\* whose header lacks optional columns (subtitle, text, keywords, claps,
\* author_name), the absent columns being read as missing values.
MissingColumnsTolerated ==
    (file.exists /\ ~FitRaises(SearchTexts(LoadedFrame(file)))) =>
        /\ phase # "crashed"
        /\ (phase = "serving" /\ response.kind \in {"search", "error"}
               /\ response.status # 400) => response.kind = "search"

\* The text a cell gives to search_text: nothing when the value is missing.
DefaultedText(cell) == IF cell.na THEN EmptyStr ELSE cell.s

\* C15: a missing title, subtitle, text or keywords adds the empty string
\* to search_text, and every returned result has claps 0 when the row's
\* claps is missing and author "Unknown" when its author_name is missing.
MissingValuesGetDefaults ==
    /\ (phase = "serving" /\ file.exists) =>
          \A i \in Rows :
              df.rows[i].search_text =
                  Concat(Concat(Concat(DefaultedText(file.rows[i].title),
                                       DefaultedText(file.rows[i].subtitle)),
                                DefaultedText(file.rows[i].text)),
                         DefaultedText(file.rows[i].keywords))
    /\ Answered =>
          \A i \in Returned :
              /\ response.articles[i].claps =
                     (IF TopRow(i).claps.na THEN 0 ELSE TopRow(i).claps.n)
              /\ response.articles[i].author =
                     (IF TopRow(i).author_name.na THEN "Unknown"
                      ELSE TopRow(i).author_name.a)

\* C15 witness: an answer with a row of missing claps and title and a row
\* of missing author_name.
MissingValuesSeen ==
    /\ Answered
    /\ \E i, j \in Returned :
          /\ TopRow(i).claps.na /\ TopRow(i).title.na
          /\ TopRow(j).author_name.na /\ TopRow(j).keywords.na

\* C16: rows are kept in source order and the i-th vector of tfidf_matrix
\* belongs to the i-th document: while queries are answered on a non-empty
\* corpus, df and tfidf_matrix have one row per data row of the file, in the
\* file's order, the similarity of a document is computed from its own
\* search_text, and /article/<i> returns the i-th row (404 out of range).
VectorsFollowRows ==
    /\ (phase = "serving" /\ ~NoCorpus(df)) =>
          /\ tfidf_matrix.kind = "matrix"
          /\ Len(tfidf_matrix.rows) = Len(df.rows)
          /\ Len(df.rows) = Len(file.rows)
          /\ \A i \in Rows :
                /\ df.rows[i].idx = i - 1
                /\ df.rows[i].url = file.rows[i].url
                /\ df.rows[i].title = file.rows[i].title
                /\ df.rows[i].claps = file.rows[i].claps
                /\ tfidf_matrix.rows[i] = Transform(vectorizer, SearchText(file.rows[i]))
                /\ response.kind = "search" =>
                      df.rows[i].similarity =
                          Cosine(Transform(vectorizer, response.query),
                                 Transform(vectorizer, SearchText(file.rows[i])))
          /\ response.kind = "article" =>
                /\ response.index + 1 \in Rows
                /\ response.articles[1].url = file.rows[response.index + 1].url
                /\ response.articles[1].title = file.rows[response.index + 1].title
                /\ response.articles[1].claps = file.rows[response.index + 1].claps
          /\ response.kind = "notfound" => response.index + 1 \notin Rows
    /\ response.kind = "article" => phase = "serving" /\ ~NoCorpus(df)

\* C16 witness: the second of two different rows was fetched by its index
\* after a search had scored the rows.
SecondArticleSeen ==
    /\ response.kind = "article" /\ response.index = 1
    /\ file.rows[1].text # file.rows[2].text
    /\ "similarity" \in df.columns
    /\ df.rows[1].similarity # df.rows[2].similarity

\* The query has no term of the vocabulary.
NoOverlap == \A w \in Words : Transform(vectorizer, response.query)[w] = 0

\* C17 (as claimed): a result is reported with similarity_score 0 only when
\* no query term overlaps the vocabulary, and every result that passed the
\* filter similarity > 0 is reported with a similarity_score above 0.
ZeroScoreOnlyOnFallback ==
    Answered =>
        \A i \in Returned :
            /\ response.articles[i].similarity_score = 0 => NoOverlap
            /\ TopRow(i).similarity > 0 => response.articles[i].similarity_score > 0

\* Half a unit of the last reported digit, in units of 1/SimScale.
HalfUnit == SimScale \div (2 * RoundDigitsScale)

\* C17 (amended): every result that passed the filter has a similarity
\* above 0, reported rounded to 4 decimals: the similarity_score is 0 when
\* the similarity is below 0.00005 (be it 0 on the fallback path, where no
\* query term overlaps the vocabulary, or not) and above 0 when the
\* similarity is above 0.00005.
ZeroScoreOnlyWhenTiny ==
    Answered =>
        \A i \in Returned :
            /\ ~NoOverlap => TopRow(i).similarity > 0
            /\ NoOverlap => TopRow(i).similarity = 0
            /\ TopRow(i).similarity < HalfUnit => response.articles[i].similarity_score = 0
            /\ TopRow(i).similarity > HalfUnit => response.articles[i].similarity_score > 0

\* C17 witness: a document of similarity > 0 reported with score 0, next to
\* one reported with a score above 0.
TinySimilaritySeen ==
    /\ Answered
    /\ \E i, j \in Returned :
          /\ TopRow(i).similarity > 0 /\ response.articles[i].similarity_score = 0
          /\ response.articles[j].similarity_score > 0

\* A number as a claps string shows it: digits with at most one decimal
\* point.
IsNumber(s) ==
    /\ \A i \in 1..Len(s) : s[i] \in Digits \cup {"."}
    /\ Cardinality({i \in 1..Len(s) : s[i] = "."}) <= 1
    /\ \E i \in 1..Len(s) : s[i] \in Digits

\* The digits of a number, and how many of them follow the point.
NumberDigits(s) == LET digit(c) == c \in Digits IN SelectSeq(s, digit)
NumberDecimals(s) ==
    IF \E i \in 1..Len(s) : s[i] = "."
    THEN Len(s) - (CHOOSE i \in 1..Len(s) : s[i] = ".")
    ELSE 0

\* The string is a number followed by the suffix, and n is the number
\* times factor.
IsTimes(n, s, suffix, factor) ==
    /\ Len(s) >= 2 /\ s[Len(s)] = suffix
    /\ IsNumber(SubSeq(s, 1, Len(s) - 1))
    => n * Pow10(NumberDecimals(SubSeq(s, 1, Len(s) - 1)))
          = DigitsValue(NumberDigits(SubSeq(s, 1, Len(s) - 1))) * factor

\* C18: parse_claps never raises, whatever the string; a decimal integer
\* gives that integer, a number followed by K the number times 1000, a
\* number followed by M the number times 1,000,000, and the empty string or
\* a string without any digit gives 0.
ParseClapsNeverRaises ==
    parsed # NotParsed =>
        /\ parsed.kind = "int"
        /\ IsDigits(claps_str) => parsed.n = DigitsValue(claps_str)
        /\ IsTimes(parsed.n, claps_str, "K", 1000)
        /\ IsTimes(parsed.n, claps_str, "M", 1000000)
        /\ (\A i \in 1..Len(claps_str) : claps_str[i] \notin Digits) => parsed.n = 0

\* Whitespace at neither end, and no two whitespace characters in a row.
IsNormalized(s) ==
    /\ s # <<>> => ~IsSpace(s[1]) /\ ~IsSpace(s[Len(s)])
    /\ \A i \in 1..(Len(s) - 1) : ~(IsSpace(s[i]) /\ IsSpace(s[i + 1]))

\* C19: the text clean_text returns has no whitespace at its ends and no
\* two whitespace characters in a row, and clean_text of it returns it
\* unchanged, also when the input has characters outside ASCII.
CleanTextNormalizes ==
    /\ cleaned.done => IsNormalized(cleaned.s)
    /\ cleaned_again.done => cleaned_again.s = cleaned.s

\* The urls of a sequence of rows.
UrlsOf(rows) == [i \in 1..Len(rows) |-> rows[i].url]

\* scrape_all resumes on an existing output file.
Resuming == program = "scraper" /\ resume /\ file_before.exists

WordInRow(d, r, w) ==
    \/ "title" \in d.columns /\ ~r.title.na /\ r.title.s[w] > 0
    \/ "text" \in d.columns /\ ~r.text.na /\ r.text.s[w] > 0
    \/ "keywords" \in d.columns /\ ~r.keywords.na /\ r.keywords.s[w] > 0

\* The number of words of the query that row r contains.
WordsMatched(d, r, query) ==
    SumOver([w \in Words |-> IF IsToken(w) /\ WordInRow(d, r, w) THEN query[w] ELSE 0],
            Words)

\* The claps shown for row r.
ShownClaps(d, r) == IF "claps" \in d.columns /\ ~r.claps.na THEN r.claps.n ELSE 0

\* api_deploy.py has answered a search with a list of articles.
DeployAnswered == response.kind = "html" /\ response.status = 200

\* The rows of df the answer's articles may stand for: one row per
\* article, no row twice, with the article's url, title and claps.
RowsShown ==
    { f \in [1..Len(response.articles) -> 1..Len(df.rows)] :
        /\ \A i, j \in DOMAIN f : i # j => f[i] # f[j]
        /\ \A i \in DOMAIN f :
              response.articles[i] =
                 [url |-> df.rows[f[i]].url, title |-> df.rows[f[i]].title,
                  claps |-> ShownClaps(df, df.rows[f[i]])] }

\* C21: search_simple returns at most top_k articles, each the url, title
\* and claps of a row that holds a word of the query in its title, text or
\* keywords, ordered by the number of query words matched, descending, and
\* then by claps, descending.
SearchSimpleContract ==
    DeployAnswered =>
        /\ Len(response.articles) <= DeployTopK
        /\ \E f \in RowsShown :
              /\ \A i \in DOMAIN f : WordsMatched(df, df.rows[f[i]], response.query) > 0
              /\ \A i, j \in DOMAIN f : i < j =>
                    LET mi == WordsMatched(df, df.rows[f[i]], response.query)
                        mj == WordsMatched(df, df.rows[f[j]], response.query)
                    IN \/ mi > mj
                       \/ mi = mj /\ response.articles[i].claps >= response.articles[j].claps

\* The loop of scrape_all was entered and stopped by an exception or a
\* KeyboardInterrupt.
LoopStopped ==
    /\ program = "scraper" /\ spc \in {"finally", "done"}
    /\ driver # "none" /\ outcome \in {"interrupted", "ValueError"}

\* C22: when the loop of scrape_all is stopped by an exception or a
\* KeyboardInterrupt, the output file holds every accumulated article but
\* at most the last 9, and no fewer rows than before the run.
BoundedLossOnInterruption ==
    LoopStopped =>
        /\ \A i \in 1..(Len(scraped_data) - (SaveEvery - 1)) :
              /\ i <= Len(output_file.rows)
              /\ output_file.rows[i].url = scraped_data[i].url
        /\ Len(output_file.rows) >= Len(file_before.rows)

\* scrape_urls of main.py has entered its loop.
InScrapeUrlsLoop == program = "main" /\ pos >= 1

\* C24: from the moment scrape_urls enters its loop, also after a
\* KeyboardInterrupt, the output file is one header row, the rows it held
\* before the run and, in the order scraped, one row per dictionary that
\* scrape_article returned, scraped_count of them.
EachArticlePersistedAtOnce ==
    InScrapeUrlsLoop =>
        /\ output_file.exists /\ output_file.header # "none"
        /\ output_file.rows = file_before.rows \o articles
        /\ scraped_count = Len(articles)

\* C23: on every path of scrape_all and of scrape_urls on which
\* create_driver succeeded, driver.quit() has been called exactly once when
\* the call is over.
BrowserClosedOnce ==
    (spc = "done" /\ driver # "none") => (driver = "quit" /\ quits = 1)

\* No two rows of file f have the same url.
OneRowPerUrl(f) ==
    \A i, j \in 1..Len(f.rows) : i # j => f.rows[i].url # f.rows[j].url

\* C25: a run with resume enabled never leaves two rows with the same url
\* in a file that had at most one row per url, whatever the list of urls
\* (so after any sequence of such runs the file has at most one row per url).
ResumedRunsKeepUrlsUnique ==
    (spc = "done" /\ program # "none" /\ resume /\ OneRowPerUrl(file_before))
        => OneRowPerUrl(output_file)

\* C26: after any sequence of runs of scrape_all and scrape_urls on the
\* same file, no run has ended with DictWriter's ValueError and, in a file
\* with a header row, every data row has the fields of that header.
OneSchemaForBothPrograms ==
    (spc = "done" /\ output_file.header # "none") =>
        /\ outcome # "ValueError"
        /\ \A i \in 1..Len(output_file.rows) :
              output_file.rows[i].columns = output_file.header

\* C27: when the loop of scrape_all or of scrape_urls is over without a
\* user interrupt, every url of urls_to_scrape has been given to
\* scrape_article exactly once, in list order.
EveryUrlAttemptedOnce ==
    (spc = "done" /\ pos >= 1 /\ outcome # "interrupted") => fetched = urls_to_scrape

\* search_articles of api.py can run and gets past `df is None or df.empty`.
PastEmptyCorpusCheck == phase \in {"wsgi", "serving"} /\ ~NoCorpus(df)

\* C28: whenever search_articles gets past its empty-corpus check, the
\* vectorizer is fitted on the search texts of the current df and
\* tfidf_matrix holds, row by row, the vectors of those texts.
IndexIsOfCurrentDf ==
    PastEmptyCorpusCheck =>
        /\ vectorizer = FittedVectorizer([i \in 1..Len(df.rows) |-> df.rows[i].search_text])
        /\ tfidf_matrix.kind = "matrix"
        /\ Len(tfidf_matrix.rows) = Len(df.rows)
        /\ \A i \in 1..Len(df.rows) :
              tfidf_matrix.rows[i] = Transform(vectorizer, df.rows[i].search_text)

\* C28 witness: a query was answered from an index of two articles.
IndexOfCurrentDfUsed ==
    /\ PastEmptyCorpusCheck
    /\ Len(df.rows) = 2
    /\ response.kind = "search" /\ response.count > 0

====
